---- MODULE Spec2Model ----
(***************************************************************************)
(* Hope Bridge (hopegate): the funding ledger of the crowdfunding schema.  *)
(*                                                                         *)
(* The database holds the tables projects and donations.  The trigger      *)
(* on_donation_completed runs update_project_raised_amount() AFTER UPDATE  *)
(* on every donations row.  The application writes to the tables through   *)
(* DonationModal.handleDonate (INSERT of a donation), CreateProject.       *)
(* handleSubmit (INSERT / UPDATE of a project) and AdminPanel.handleApprove*)
(* / handleReject (UPDATE of a project).  Updates of donations rows are    *)
(* not granted to clients by the row-level policies; they are run by       *)
(* privileged database sessions, each as one transaction under the default *)
(* READ COMMITTED isolation: the row versions a transaction writes are     *)
(* locked and invisible to the others until it commits.                    *)
(*                                                                         *)
(* Amounts are integers (units of currency).                               *)
(*                                                                         *)
(* Spec is the application with one project row; SpecFrame is the ledger   *)
(* over several project rows; SpecRls is the set of statements the         *)
(* row-level policies of profiles and projects admit from signed-in users. *)
(***************************************************************************)
EXTENDS Integers, FiniteSets, Sequences, TLC

\* ---------------------------------------------------------------- bounds
NumProjects == 1
MaxDonations == 2
MaxSessions == 2
MaxAmount == 2
MaxGoal == 3
MaxRaised == 4
NumUsers == 2
FrameProjects == 2
MaxTime == 2

ProjectIds == 1..NumProjects
UserIds == 1..NumUsers
FrameProjectIds == 1..FrameProjects
DonationIds == 1..MaxDonations
Amounts == 1..MaxAmount
Goals == 2..MaxGoal
\* the amount a statement sent through the API may carry, and the text a donor may
\* type into the amount field of the donation form
ApiAmounts == -1..MaxAmount
AmountTexts == {"", "abc", "-1", "0", "1", "2", "2x"}

\* the days of the clock, and the end dates the project form can send
Times == 1..MaxTime
EndDates == 0..MaxTime

\* ---------------------------------------------------------------- types
\* SQL NULL of the columns projects.start_date and projects.end_date
NoDate == 0
\* SQL NULL of the nullable column donations.status
NULL == "NULL"

ProjectStatus == {"draft", "pending_review", "active", "fully_funded", "completed", "cancelled"}
DonationStatus == {"pending", "completed", "refunded"}
UserRole == {"donor", "project_creator", "admin"}

\* the absence of a row
NoProject == [status |-> "none", goal_amount |-> 0, raised_amount |-> 0, creator_id |-> 0,
              start_date |-> NoDate, end_date |-> NoDate]
\* a row that has been deleted (its id is never given to another row)
DeletedProject == [status |-> "deleted", goal_amount |-> 0, raised_amount |-> 0,
                   creator_id |-> 0, start_date |-> NoDate, end_date |-> NoDate]
NoDonation == [project_id |-> 0, amount |-> 0, status |-> "none"]

\* no open transaction on a donations row
IdleTx == [pc |-> "idle", new |-> NoDonation, wrote |-> FALSE, project |-> NoProject]

VARIABLES
  profiles,          \* table profiles: the role of each user ("none": no row)
  projects,          \* table projects: the committed row of each id
  donations,         \* table donations: the committed row of each id
  tx,                \* the open transaction that has locked each donations row
  adminProjects,     \* AdminPanel.projects: ids listed with status pending_review
  showDonationModal, \* AppContent.showDonationModal
  donationProject,   \* AppContent.donationProject (0: null)
  error,             \* DonationModal.error ("" while the modal is not mounted)
  selected,          \* the rows of projects the last SELECT returned, and to whom
  now,               \* the current time, in days
  affected,          \* rows the last UPDATE or DELETE of a client on donations touched (-1: none)
  currentPage,       \* AppContent.currentPage
  selectedProjectId, \* AppContent.selectedProjectId (0: null)
  editProjectId,     \* AppContent.editProjectId (0: null)
  authUser,          \* AuthContext.user: the id of the signed-in user (0: null)
  dashProjects,      \* Dashboard.projects: ids of the rows loadCreatorData loaded
  onSuccess,         \* selectedProjectId as the onSuccess of the in-flight donation holds it (-1: none in flight)
  history            \* of each donation: "never" completed so far, "completed" at some
                     \* time without a credit, or "credited" by the ledger at some time

vars == <<profiles, projects, donations, tx, adminProjects, showDonationModal, donationProject,
          error, history,
          selected,
          now,
          affected,
          currentPage,
          selectedProjectId,
          editProjectId,
          authUser,
          dashProjects,
          onSuccess>>

\* ---------------------------------------------------------------- SQL
\* three-valued comparison of SQL: a comparison with NULL is unknown
SqlEq(a, b) == IF a = NULL \/ b = NULL THEN "unknown" ELSE IF a = b THEN "true" ELSE "false"
SqlNeq(a, b) == IF a = NULL \/ b = NULL THEN "unknown" ELSE IF a # b THEN "true" ELSE "false"
SqlAnd(x, y) == IF x = "false" \/ y = "false" THEN "false"
                ELSE IF x = "true" /\ y = "true" THEN "true" ELSE "unknown"

\* variant: the condition without its test of OLD.status
TriggerCondition_NoOld(old, new) == SqlEq(new.status, "completed") = "true"

\* IF NEW.status = 'completed' AND OLD.status != 'completed' THEN
\* (plpgsql takes the branch only when the condition is true)
TriggerCondition(old, new) ==
  SqlAnd(SqlEq(new.status, "completed"), SqlNeq(old.status, "completed")) = "true"

\* variant: the threshold compared with the total before the increment
ApplyCompleted_StaleThreshold(row, amount) ==
  [row EXCEPT !.raised_amount = row.raised_amount + amount,
              !.status = IF row.raised_amount >= row.goal_amount
                         THEN "fully_funded" ELSE row.status]

\* variant: the total capped at the goal
ApplyCompleted_Capped(row, amount) ==
  [row EXCEPT !.raised_amount = IF row.raised_amount + amount >= row.goal_amount
                                THEN (IF row.raised_amount >= row.goal_amount
                                      THEN row.raised_amount ELSE row.goal_amount)
                                ELSE row.raised_amount + amount,
              !.status = IF row.raised_amount + amount >= row.goal_amount
                         THEN "fully_funded" ELSE row.status]

\* UPDATE projects SET raised_amount = raised_amount + NEW.amount,
\*   status = CASE WHEN raised_amount + NEW.amount >= goal_amount
\*                 THEN 'fully_funded' ELSE status END
\* (the right-hand sides read the row as it was before the statement)
ApplyCompleted(row, amount) ==
  [row EXCEPT !.raised_amount = row.raised_amount + amount,
              !.status = IF row.raised_amount + amount >= row.goal_amount
                         THEN "fully_funded" ELSE row.status]

\* row locks held by open transactions
DonationLocked(d) == tx[d].pc # "idle"
\* variant: the UPDATE of the trigger takes no row lock
ProjectLocked_Never(p) == FALSE
ProjectLocked(p) == \E d \in DonationIds : tx[d].wrote /\ tx[d].new.project_id = p
OpenSessions == {d \in DonationIds : tx[d].pc # "idle"}

ProjectExists(p) == projects[p] \notin {NoProject, DeletedProject}
DonationExists(d) == donations[d] # NoDonation

\* gen_random_uuid(): a new row takes an id no row has
FreeDonationIds == {d \in DonationIds : ~DonationExists(d)}
FreeProjectIds == {p \in DOMAIN projects : projects[p] = NoProject}
NewDonationId == CHOOSE d \in FreeDonationIds : \A e \in FreeDonationIds : d <= e
NewProjectId == CHOOSE p \in FreeProjectIds : \A q \in FreeProjectIds : p <= q

\* variant: the trigger declared AFTER INSERT OR UPDATE
InsertDonation_Credits(p, amount, status) ==
  /\ FreeDonationIds # {}
  /\ ProjectExists(p)
  /\ amount > 0
  /\ donations' = [donations EXCEPT ![NewDonationId] =
                     [project_id |-> p, amount |-> amount, status |-> status]]
  /\ history' = IF status = "completed"
                THEN [history EXCEPT ![NewDonationId] = "credited"] ELSE history
  /\ projects' = IF status = "completed" /\ projects[p].raised_amount + amount <= MaxRaised
                 THEN [projects EXCEPT ![p] = ApplyCompleted(projects[p], amount)]
                 ELSE projects

\* variant: the table without CHECK (amount > 0)
InsertDonation_NoAmountCheck(p, amount, status) ==
  /\ FreeDonationIds # {}
  /\ ProjectExists(p)
  /\ donations' = [donations EXCEPT ![NewDonationId] =
                     [project_id |-> p, amount |-> amount, status |-> status]]
  /\ history' = IF status = "completed"
                THEN [history EXCEPT ![NewDonationId] = "completed"] ELSE history
  /\ UNCHANGED projects

\* variant: the table without the foreign key on project_id
InsertDonation_NoForeignKey(p, amount, status) ==
  /\ FreeDonationIds # {}
  /\ amount > 0
  /\ donations' = [donations EXCEPT ![NewDonationId] =
                     [project_id |-> p, amount |-> amount, status |-> status]]
  /\ history' = IF status = "completed"
                THEN [history EXCEPT ![NewDonationId] = "completed"] ELSE history
  /\ UNCHANGED projects

\* INSERT INTO donations: foreign key on project_id, CHECK (amount > 0);
\* the trigger on_donation_completed is AFTER UPDATE only, so nothing else runs
InsertDonation(p, amount, status) ==
  /\ FreeDonationIds # {}
  /\ ProjectExists(p)
  /\ amount > 0
  /\ donations' = [donations EXCEPT ![NewDonationId] =
                     [project_id |-> p, amount |-> amount, status |-> status]]
  /\ history' = IF status = "completed"
                THEN [history EXCEPT ![NewDonationId] = "completed"] ELSE history
  /\ UNCHANGED projects

\* ---------------------------------------------------------------- initial state
\* the users have signed up: user 1 as a project creator; the others have been made
\* admins in the Supabase dashboard
Init ==
  /\ profiles = [u \in UserIds |-> IF u = 1 THEN "project_creator" ELSE "admin"]
  /\ projects = [p \in ProjectIds |-> NoProject]
  /\ donations = [d \in DonationIds |-> NoDonation]
  /\ tx = [d \in DonationIds |-> IdleTx]
  /\ adminProjects = {}
  /\ showDonationModal = FALSE
  /\ donationProject = 0
  /\ error = ""
  /\ onSuccess = -1
  /\ dashProjects = {}
  /\ authUser = 0
  /\ editProjectId = 0
  /\ selectedProjectId = 0
  /\ currentPage = "home"
  /\ affected = -1
  /\ now = 1
  /\ selected = [uid |-> 0, rows |-> {}]
  /\ history = [d \in DonationIds |-> "never"]

\* ---------------------------------------------------------------- donations
\* ProjectDetail shows "Support This Project" when the loaded project is active;
\* AppContent.handleDonate opens the modal for it
handleDonateOpen(p) ==
  /\ ProjectExists(p)
  /\ projects[p].status = "active"
  /\ donationProject' = p
  /\ showDonationModal' = TRUE
  /\ error' = ""
  /\ UNCHANGED <<projects, donations, tx, adminProjects, history, profiles, selected, now,
            affected, currentPage, selectedProjectId, editProjectId, authUser,
            dashProjects, onSuccess>>

\* parseFloat of the amount field: the number the text starts with, or NaN
parseFloat(text) ==
  CASE text = "-1" -> [isNaN |-> FALSE, value |-> -1]
    [] text = "0" -> [isNaN |-> FALSE, value |-> 0]
    [] text = "1" -> [isNaN |-> FALSE, value |-> 1]
    [] text = "2" -> [isNaN |-> FALSE, value |-> 2]
    [] text = "2x" -> [isNaN |-> FALSE, value |-> 2]
    [] OTHER -> [isNaN |-> TRUE, value |-> 0]

InvalidAmount == "Please enter a valid amount"
\* the message of the error PostgreSQL raises for a project_id without its row
ForeignKeyViolation == "violates foreign key constraint"

\* DonationModal.handleDonate: the amount is parsed and validated; then INSERT with
\* status 'completed', onSuccess() and onClose(); an error of the INSERT is shown in
\* the modal, which stays open
handleDonate(text) ==
  LET donationAmount == parseFloat(text)
  IN /\ showDonationModal
     /\ donationProject # 0
     /\ IF donationAmount.isNaN \/ donationAmount.value <= 0
        THEN /\ error' = InvalidAmount
             /\ UNCHANGED <<projects, donations, history, showDonationModal>>
        ELSE IF ProjectExists(donationProject)
        THEN /\ donationAmount.value <= MaxAmount
             /\ InsertDonation(donationProject, donationAmount.value, "completed")
             /\ error' = ""
             /\ showDonationModal' = FALSE
        ELSE /\ error' = ForeignKeyViolation
             /\ UNCHANGED <<projects, donations, history, showDonationModal>>
     /\ UNCHANGED <<tx, adminProjects, donationProject, profiles, selected, now, affected,
            currentPage, selectedProjectId, editProjectId, authUser, dashProjects, onSuccess>>

\* DonationModal onClose (the X button)
closeDonationModal ==
  /\ showDonationModal
  /\ showDonationModal' = FALSE
  /\ error' = ""
  /\ UNCHANGED <<projects, donations, tx, adminProjects, donationProject, history, profiles,
            selected, now, affected, currentPage, selectedProjectId, editProjectId,
            authUser, dashProjects, onSuccess>>

\* an INSERT through the API under the policy "Authenticated users can create
\* donations": the status column is the caller's choice (DEFAULT 'pending', nullable)
ApiInsertDonation(p, amount, status) ==
  /\ InsertDonation(p, amount, status)
  /\ UNCHANGED <<tx, adminProjects, showDonationModal, donationProject, error, profiles,
            selected, now, affected, currentPage, selectedProjectId, editProjectId,
            authUser, dashProjects, onSuccess>>

\* UPDATE donations SET status = .., amount = .. WHERE id = d, run by a privileged
\* session: the row is locked and its new version written (CHECK (amount > 0)), then
\* the AFTER UPDATE row trigger on_donation_completed runs
\* update_project_raised_amount().
\*  - When the trigger's condition holds, its UPDATE projects waits for the project's
\*    row lock and reads the latest committed row; the statement ends with both row
\*    versions written, locked and not yet visible to the other sessions.
\*  - Otherwise the transaction has written the donations row alone: it is one
\*    single-row write, which takes effect at its commit.
UpdateDonation(d, status, amount) ==
  LET old == donations[d]
      new == [donations[d] EXCEPT !.status = status, !.amount = amount]
  IN /\ DonationExists(d)
     /\ ~DonationLocked(d)
     /\ amount > 0
     /\ IF TriggerCondition(old, new)
        THEN /\ Cardinality(OpenSessions) < MaxSessions
             /\ ~ProjectLocked(new.project_id)
             /\ projects[new.project_id].raised_amount + new.amount <= MaxRaised
             /\ tx' = [tx EXCEPT ![d] = [pc |-> "written", new |-> new, wrote |-> TRUE,
                                         project |-> ApplyCompleted(projects[new.project_id],
                                                                    new.amount)]]
             /\ UNCHANGED <<donations, history>>
        ELSE /\ donations' = [donations EXCEPT ![d] = new]
             /\ history' = IF new.status = "completed" /\ history[d] = "never"
                           THEN [history EXCEPT ![d] = "completed"] ELSE history
             /\ UNCHANGED tx
     /\ UNCHANGED <<projects, adminProjects, showDonationModal, donationProject, error, profiles,
            selected, now, affected, currentPage, selectedProjectId, editProjectId,
            authUser, dashProjects, onSuccess>>

\* variant: the commit publishes the new total without the re-evaluated status
Commit_RaisedOnly(d) ==
  /\ tx[d].pc = "written"
  /\ donations' = [donations EXCEPT ![d] = tx[d].new]
  /\ projects' = IF tx[d].wrote
                 THEN [projects EXCEPT ![tx[d].new.project_id].raised_amount =
                                          tx[d].project.raised_amount]
                 ELSE projects
  /\ tx' = [tx EXCEPT ![d] = IdleTx]
  /\ history' = IF tx[d].wrote THEN [history EXCEPT ![d] = "credited"] ELSE history
  /\ UNCHANGED <<adminProjects, showDonationModal, donationProject, error, profiles, selected,
            now, affected, currentPage, selectedProjectId, editProjectId, authUser,
            dashProjects, onSuccess>>

\* variant: the UPDATE projects of the trigger without WHERE id = NEW.project_id
Commit_NoWhere(d) ==
  /\ tx[d].pc = "written"
  /\ donations' = [donations EXCEPT ![d] = tx[d].new]
  /\ projects' = IF tx[d].wrote
                 THEN [q \in DOMAIN projects |->
                         IF q = tx[d].new.project_id THEN tx[d].project
                         ELSE IF ProjectExists(q)
                         THEN ApplyCompleted(projects[q], tx[d].new.amount)
                         ELSE projects[q]]
                 ELSE projects
  /\ tx' = [tx EXCEPT ![d] = IdleTx]
  /\ history' = IF tx[d].wrote THEN [history EXCEPT ![d] = "credited"] ELSE history
  /\ UNCHANGED <<adminProjects, showDonationModal, donationProject, error, profiles, selected,
            now, affected, currentPage, selectedProjectId, editProjectId, authUser,
            dashProjects, onSuccess>>

\* COMMIT of the transaction that updated donation d: the written row versions
\* become the committed rows and the locks are released
Commit(d) ==
  /\ tx[d].pc = "written"
  /\ donations' = [donations EXCEPT ![d] = tx[d].new]
  /\ projects' = IF tx[d].wrote
                 THEN [projects EXCEPT ![tx[d].new.project_id] = tx[d].project]
                 ELSE projects
  /\ tx' = [tx EXCEPT ![d] = IdleTx]
  /\ history' = IF tx[d].wrote THEN [history EXCEPT ![d] = "credited"]
                ELSE IF tx[d].new.status = "completed" /\ history[d] = "never"
                THEN [history EXCEPT ![d] = "completed"] ELSE history
  /\ UNCHANGED <<adminProjects, showDonationModal, donationProject, error, profiles, selected,
            now, affected, currentPage, selectedProjectId, editProjectId, authUser,
            dashProjects, onSuccess>>

\* variant: the failure of the trigger's statement does not undo the donation write
Rollback_DonationKept(d) ==
  /\ tx[d].pc = "written"
  /\ donations' = [donations EXCEPT ![d] = tx[d].new]
  /\ tx' = [tx EXCEPT ![d] = IdleTx]
  /\ history' = IF history[d] = "never" THEN [history EXCEPT ![d] = "completed"] ELSE history
  /\ UNCHANGED <<projects, adminProjects, showDonationModal, donationProject, error, profiles,
            selected, now, affected, currentPage, selectedProjectId, editProjectId,
            authUser, dashProjects, onSuccess>>

\* ROLLBACK: the UPDATE projects of the trigger raised an error (a constraint of the
\* projects row, numeric overflow of decimal(12, 2)) or the commit failed; the
\* trigger runs inside the statement that fired it, so the statement is undone whole
Rollback(d) ==
  /\ tx[d].pc = "written"
  /\ tx' = [tx EXCEPT ![d] = IdleTx]
  /\ UNCHANGED <<projects, donations, adminProjects, showDonationModal, donationProject,
            error, history, profiles, selected, now, affected, currentPage,
            selectedProjectId, editProjectId, authUser, dashProjects, onSuccess>>

\* ---------------------------------------------------------------- projects
\* CONSTRAINT valid_date_range CHECK (end_date IS NULL OR start_date IS NULL OR
\* end_date > start_date): end_date is the midnight its day starts with and
\* start_date a moment of its day, so the later day must be the end date's
ValidDateRange(row) ==
  row.end_date = NoDate \/ row.start_date = NoDate \/ row.end_date > row.start_date

\* CreateProject.handleSubmit without projectId: INSERT (raised_amount DEFAULT 0)
\* with creator_id: user.id, by a user the Header offers "Create Project" to;
\* end_date is the date of the date field (the midnight the day starts with), or null
\* when the field is empty.  The two buttons are type="button", so the min and
\* required attributes of the fields are not enforced.
handleSubmitCreate(status, goal, end_date) ==
  /\ FreeProjectIds # {}
  /\ goal > 0
  /\ \E user \in UserIds :
       /\ profiles[user] = "project_creator"
       /\ projects' = [projects EXCEPT ![NewProjectId] =
                         [status |-> status, goal_amount |-> goal, raised_amount |-> 0,
                          creator_id |-> user, start_date |-> NoDate,
                          end_date |-> end_date]]
  /\ UNCHANGED <<donations, tx, adminProjects, showDonationModal, donationProject, error,
            history, profiles, selected, now, affected, currentPage, selectedProjectId,
            editProjectId, authUser, dashProjects, onSuccess>>

\* variant: the form writes raised_amount: 0 with the other fields
handleSubmitEdit_ResetsRaised(p, status, goal, end_date) ==
  /\ ProjectExists(p)
  /\ ~ProjectLocked(p)
  /\ goal > 0
  /\ projects' = [projects EXCEPT ![p].status = status, ![p].goal_amount = goal,
                                  ![p].raised_amount = 0]
  /\ UNCHANGED <<donations, tx, adminProjects, showDonationModal, donationProject, error,
                 history, profiles, selected, now, affected, currentPage,
                 selectedProjectId, editProjectId, authUser, dashProjects, onSuccess>>

\* variant: a save that writes the form fields and leaves the status as it is
handleSubmitEdit_KeepsStatus(p, status, goal, end_date) ==
  /\ ProjectExists(p)
  /\ ~ProjectLocked(p)
  /\ goal > 0
  /\ projects' = [projects EXCEPT ![p].goal_amount = goal]
  /\ UNCHANGED <<donations, tx, adminProjects, showDonationModal, donationProject, error,
                 history, profiles, selected, now, affected, currentPage,
                 selectedProjectId, editProjectId, authUser, dashProjects, onSuccess>>

\* CreateProject.handleSubmit with projectId (Dashboard edit button, shown for
\* every project of the creator): UPDATE of the form fields, of status and of
\* creator_id: user.id; the row must satisfy CONSTRAINT valid_date_range
handleSubmitEdit(p, status, goal, end_date) ==
  /\ ProjectExists(p)
  /\ ~ProjectLocked(p)
  /\ goal > 0
  /\ ValidDateRange([projects[p] EXCEPT !.end_date = end_date])
  /\ \E user \in UserIds :
       /\ projects[p].creator_id = user
       /\ projects' = [projects EXCEPT ![p].status = status, ![p].goal_amount = goal,
                                       ![p].creator_id = user,
                                       ![p].end_date = end_date]
  /\ UNCHANGED <<donations, tx, adminProjects, showDonationModal, donationProject, error,
            history, profiles, selected, now, affected, currentPage, selectedProjectId,
            editProjectId, authUser, dashProjects, onSuccess>>

\* AdminPanel.loadProjects: the rows for which the approve / reject buttons show
PendingReview(prj) == {p \in DOMAIN prj : prj[p].status = "pending_review"}

loadProjects ==
  /\ adminProjects' = PendingReview(projects)
  /\ UNCHANGED <<projects, donations, tx, showDonationModal, donationProject, error, history,
            profiles, selected, now, affected, currentPage, selectedProjectId,
            editProjectId, authUser, dashProjects, onSuccess>>

\* the row after UPDATE .. SET status = 'active', start_date = new Date() WHERE id = p:
\* the statement fails, and changes nothing, when the new row violates the constraint
ApproveResult(p) ==
  LET row == [projects[p] EXCEPT !.status = "active", !.start_date = now]
  IN IF ValidDateRange(row) THEN row ELSE projects[p]

\* AdminPanel.handleApprove: the UPDATE, then loadProjects() unless it raised an error
\* (which is logged to the console)
handleApprove(p) ==
  /\ p \in adminProjects
  /\ ~ProjectLocked(p)
  /\ projects' = IF ProjectExists(p) THEN [projects EXCEPT ![p] = ApproveResult(p)]
                 ELSE projects
  /\ adminProjects' = IF ProjectExists(p) /\ ApproveResult(p) = projects[p]
                      THEN adminProjects ELSE PendingReview(projects')
  /\ UNCHANGED <<donations, tx, showDonationModal, donationProject, error, history, profiles,
            selected, now, affected, currentPage, selectedProjectId, editProjectId,
            authUser, dashProjects, onSuccess>>

\* AdminPanel.handleReject: UPDATE .. SET status = 'cancelled' WHERE id = p, then reload
handleReject(p) ==
  /\ p \in adminProjects
  /\ ~ProjectLocked(p)
  /\ projects' = IF ProjectExists(p) THEN [projects EXCEPT ![p].status = "cancelled"]
                 ELSE projects
  /\ adminProjects' = PendingReview(projects')
  /\ UNCHANGED <<donations, tx, showDonationModal, donationProject, error, history, profiles,
            selected, now, affected, currentPage, selectedProjectId, editProjectId,
            authUser, dashProjects, onSuccess>>

\* DELETE FROM projects WHERE id = p by an admin through the API (policy "Only
\* admins can delete projects"); donations.project_id is ON DELETE CASCADE.  The
\* statement waits for the locks of the rows it deletes.
DeleteProject(p) ==
  /\ ProjectExists(p)
  /\ ~ProjectLocked(p)
  /\ \A d \in DonationIds : donations[d].project_id = p => ~DonationLocked(d)
  /\ projects' = [projects EXCEPT ![p] = DeletedProject]
  /\ donations' = [d \in DonationIds |->
                     IF donations[d].project_id = p THEN NoDonation ELSE donations[d]]
  /\ history' = [d \in DonationIds |->
                   IF donations[d].project_id = p THEN "never" ELSE history[d]]
  /\ UNCHANGED <<tx, adminProjects, showDonationModal, donationProject, error, profiles,
            selected, now, affected, currentPage, selectedProjectId, editProjectId,
            authUser, dashProjects, onSuccess>>

\* ---------------------------------------------------------------- specification
Next ==
  \/ \E p \in ProjectIds : handleDonateOpen(p)
  \/ \E text \in AmountTexts : handleDonate(text)
  \/ closeDonationModal
  \/ \E p \in ProjectIds, a \in ApiAmounts, st \in {"pending", "refunded", NULL} :
       ApiInsertDonation(p, a, st)
  \/ \E d \in DonationIds, st \in DonationStatus \cup {NULL}, a \in ApiAmounts :
       UpdateDonation(d, st, a)
  \/ \E d \in DonationIds : Commit(d)
  \/ \E d \in DonationIds : Rollback(d)
  \/ \E st \in {"draft", "pending_review"}, g \in Goals : handleSubmitCreate(st, g, NoDate)
  \/ \E p \in ProjectIds, st \in {"draft", "pending_review"}, g \in Goals :
       handleSubmitEdit(p, st, g, NoDate)
  \/ loadProjects
  \/ \E p \in ProjectIds : handleApprove(p)
  \/ \E p \in ProjectIds : handleReject(p)
  \/ \E p \in ProjectIds : DeleteProject(p)

Spec == Init /\ [][Next]_vars

\* ---------------------------------------------------------------- approval and dates
\* a day passes
Tick ==
  /\ now < MaxTime
  /\ now' = now + 1
  /\ UNCHANGED <<profiles, projects, donations, tx, adminProjects, showDonationModal,
                 donationProject, error, selected, history, affected, currentPage,
                 selectedProjectId, editProjectId, authUser, dashProjects, onSuccess>>

\* The project form with its date field, the admin panel and the clock.
NextApproval ==
  \/ \E st \in {"draft", "pending_review"}, g \in Goals, e \in EndDates :
       handleSubmitCreate(st, g, e)
  \/ \E p \in ProjectIds, st \in {"draft", "pending_review"}, g \in Goals, e \in EndDates :
       handleSubmitEdit(p, st, g, e)
  \/ loadProjects
  \/ \E p \in ProjectIds : handleApprove(p)
  \/ \E p \in ProjectIds : handleReject(p)
  \/ Tick

SpecApproval == Init /\ [][NextApproval]_vars

\* ---------------------------------------------------------------- several projects
\* The ledger over a projects table with room for FrameProjects rows: projects are
\* created and deleted, donations are inserted through the API and updated by the
\* privileged sessions.
InitFrame ==
  /\ profiles = [u \in UserIds |-> IF u = 1 THEN "project_creator" ELSE "admin"]
  /\ projects = [p \in FrameProjectIds |-> NoProject]
  /\ donations = [d \in DonationIds |-> NoDonation]
  /\ tx = [d \in DonationIds |-> IdleTx]
  /\ adminProjects = {}
  /\ showDonationModal = FALSE
  /\ donationProject = 0
  /\ error = ""
  /\ onSuccess = -1
  /\ dashProjects = {}
  /\ authUser = 0
  /\ editProjectId = 0
  /\ selectedProjectId = 0
  /\ currentPage = "home"
  /\ affected = -1
  /\ now = 1
  /\ selected = [uid |-> 0, rows |-> {}]
  /\ history = [d \in DonationIds |-> "never"]

NextFrame ==
  \/ \E st \in {"draft", "pending_review"}, g \in Goals : handleSubmitCreate(st, g, NoDate)
  \/ \E p \in FrameProjectIds, a \in ApiAmounts, st \in {"pending", "refunded", NULL} :
       ApiInsertDonation(p, a, st)
  \/ \E d \in DonationIds, st \in DonationStatus \cup {NULL}, a \in ApiAmounts :
       UpdateDonation(d, st, a)
  \/ \E d \in DonationIds : Commit(d)
  \/ \E d \in DonationIds : Rollback(d)
  \/ \E p \in FrameProjectIds : DeleteProject(p)

SpecFrame == InitFrame /\ [][NextFrame]_vars

\* ---------------------------------------------------------------- row-level policies
\* The statements a signed-in user (auth.uid() = uid) can send through the API on
\* profiles and projects, as the policies of the two tables admit them.
IsAdmin(uid) == profiles[uid] = "admin"

\* "Users can insert own profile": WITH CHECK (auth.uid() = id)
ProfilesInsertCheck(uid, id) == uid = id
\* "Users can update own profile": USING (auth.uid() = id) WITH CHECK (auth.uid() = id)
ProfilesUpdateUsing(uid, id) == uid = id
ProfilesUpdateCheck(uid, id) == uid = id
\* variant: the policy written with status NOT IN ('draft', 'pending_review')
ProjectsSelectUsing_NotDraft(uid, row) ==
  \/ row.status \notin {"draft", "pending_review"}
  \/ row.creator_id = uid
  \/ IsAdmin(uid)

\* "Active projects are viewable by everyone" (FOR SELECT TO authenticated)
ProjectsSelectUsing(uid, row) ==
  \/ row.status \in {"active", "fully_funded", "completed"}
  \/ row.creator_id = uid
  \/ IsAdmin(uid)

\* "Project creators can create projects"
ProjectsInsertCheck(uid, row) ==
  row.creator_id = uid /\ profiles[uid] \in {"project_creator", "admin"}
\* "Creators can update own projects": USING and WITH CHECK are the same expression
ProjectsUpdateUsing(uid, row) == row.creator_id = uid \/ IsAdmin(uid)
ProjectsUpdateCheck(uid, row) == row.creator_id = uid \/ IsAdmin(uid)
\* "Only admins can delete projects"
ProjectsDeleteUsing(uid) == IsAdmin(uid)

\* INSERT INTO profiles (id, role) (id is the primary key; role is the caller's)
ApiInsertProfile(uid, id, role) ==
  /\ profiles[id] = "none"
  /\ ProfilesInsertCheck(uid, id)
  /\ profiles' = [profiles EXCEPT ![id] = role]
  /\ UNCHANGED <<projects, donations, tx, adminProjects, showDonationModal,
                 donationProject, error, history, selected, now, affected, currentPage,
                 selectedProjectId, editProjectId, authUser, dashProjects, onSuccess>>

\* UPDATE profiles SET role = .. WHERE id = ..
ApiUpdateProfile(uid, id, role) ==
  /\ profiles[id] # "none"
  /\ ProfilesUpdateUsing(uid, id)
  /\ ProfilesUpdateCheck(uid, id)
  /\ profiles' = [profiles EXCEPT ![id] = role]
  /\ UNCHANGED <<projects, donations, tx, adminProjects, showDonationModal,
                 donationProject, error, history, selected, now, affected, currentPage,
                 selectedProjectId, editProjectId, authUser, dashProjects, onSuccess>>

\* INSERT INTO projects (creator_id, status, goal_amount)
ApiInsertProject(uid, creator, status, goal) ==
  LET row == [status |-> status, goal_amount |-> goal, raised_amount |-> 0,
              creator_id |-> creator, start_date |-> NoDate, end_date |-> NoDate]
  IN /\ FreeProjectIds # {}
     /\ goal > 0
     /\ profiles[creator] # "none"
     /\ ProjectsInsertCheck(uid, row)
     /\ projects' = [projects EXCEPT ![NewProjectId] = row]
     /\ UNCHANGED <<profiles, donations, tx, adminProjects, showDonationModal,
                    donationProject, error, history, selected, now, affected,
                    currentPage, selectedProjectId, editProjectId, authUser,
                    dashProjects, onSuccess>>

\* UPDATE projects SET status = .., creator_id = .. WHERE id = p
ApiUpdateProject(uid, p, status, creator) ==
  LET row == [projects[p] EXCEPT !.status = status, !.creator_id = creator]
  IN /\ ProjectExists(p)
     /\ ~ProjectLocked(p)
     /\ profiles[creator] # "none"
     /\ ProjectsUpdateUsing(uid, projects[p])
     /\ ProjectsUpdateCheck(uid, row)
     /\ projects' = [projects EXCEPT ![p] = row]
     /\ UNCHANGED <<profiles, donations, tx, adminProjects, showDonationModal,
                    donationProject, error, history, selected, now, affected,
                    currentPage, selectedProjectId, editProjectId, authUser,
                    dashProjects, onSuccess>>

\* SELECT * FROM projects: the rows the policy shows to the caller
ApiSelectProjects(uid) ==
  /\ selected' = [uid |-> uid,
                  rows |-> {p \in DOMAIN projects :
                              ProjectExists(p) /\ ProjectsSelectUsing(uid, projects[p])}]
  /\ UNCHANGED <<profiles, projects, donations, tx, adminProjects, showDonationModal,
                 donationProject, error, history, now, affected, currentPage,
                 selectedProjectId, editProjectId, authUser, dashProjects, onSuccess>>

\* DELETE FROM projects WHERE id = p
ApiDeleteProject(uid, p) ==
  /\ ProjectsDeleteUsing(uid)
  /\ DeleteProject(p)

\* donations has row-level security enabled and policies FOR SELECT and FOR INSERT
\* only: a statement of a kind without a policy is admitted on no row.
\* "Authenticated users can create donations": WITH CHECK (donor_id = auth.uid())
DonationsInsertCheck(uid, donor) == donor = uid
\* variant: a policy FOR UPDATE for the creator of the donation's project
DonationsUpdateUsing_Creator(uid, row) ==
  ProjectExists(row.project_id) /\ projects[row.project_id].creator_id = uid

\* no policy FOR UPDATE on donations
DonationsUpdateUsing(uid, row) == FALSE
\* no policy FOR DELETE on donations
DonationsDeleteUsing(uid, row) == FALSE

\* INSERT INTO donations (donor_id, project_id, amount, status); donor_id references
\* profiles(id)
ApiInsertDonationAs(uid, donor, p, amount, status) ==
  /\ profiles[donor] # "none"
  /\ DonationsInsertCheck(uid, donor)
  /\ ApiInsertDonation(p, amount, status)

\* UPDATE donations SET status = .., amount = .. WHERE id = d, sent by a client on a
\* stored donation: the statement sees the rows the UPDATE policies admit
ApiUpdateDonation(uid, d, status, amount) ==
  /\ DonationExists(d)
  /\ IF DonationsUpdateUsing(uid, donations[d])
     THEN UpdateDonation(d, status, amount)
     ELSE /\ affected' = 0
          /\ UNCHANGED <<profiles, projects, donations, tx, adminProjects,
                         showDonationModal, donationProject, error, selected, now,
                         history, currentPage, selectedProjectId, editProjectId,
                         authUser, dashProjects, onSuccess>>

\* DELETE FROM donations WHERE id = d, sent by a client on a stored donation
ApiDeleteDonation(uid, d) ==
  /\ DonationExists(d)
  /\ IF DonationsDeleteUsing(uid, donations[d])
     THEN /\ ~DonationLocked(d)
          /\ donations' = [donations EXCEPT ![d] = NoDonation]
          /\ history' = [history EXCEPT ![d] = "never"]
          /\ UNCHANGED <<profiles, projects, tx, adminProjects, showDonationModal,
                         donationProject, error, selected, now, affected, currentPage,
                         selectedProjectId, editProjectId, authUser, dashProjects, onSuccess>>
     ELSE /\ affected' = 0
          /\ UNCHANGED <<profiles, projects, donations, tx, adminProjects,
                         showDonationModal, donationProject, error, selected, now,
                         history, currentPage, selectedProjectId, editProjectId,
                         authUser, dashProjects, onSuccess>>

\* a new database: no user has signed up
InitRls ==
  /\ profiles = [u \in UserIds |-> "none"]
  /\ projects = [p \in ProjectIds |-> NoProject]
  /\ donations = [d \in DonationIds |-> NoDonation]
  /\ tx = [d \in DonationIds |-> IdleTx]
  /\ adminProjects = {}
  /\ showDonationModal = FALSE
  /\ donationProject = 0
  /\ error = ""
  /\ onSuccess = -1
  /\ dashProjects = {}
  /\ authUser = 0
  /\ editProjectId = 0
  /\ selectedProjectId = 0
  /\ currentPage = "home"
  /\ affected = -1
  /\ now = 1
  /\ selected = [uid |-> 0, rows |-> {}]
  /\ history = [d \in DonationIds |-> "never"]

NextRls ==
  \/ \E uid \in UserIds, id \in UserIds, role \in UserRole : ApiInsertProfile(uid, id, role)
  \/ \E uid \in UserIds, id \in UserIds, role \in UserRole : ApiUpdateProfile(uid, id, role)
  \/ \E uid \in UserIds, creator \in UserIds, st \in ProjectStatus, g \in Goals :
       ApiInsertProject(uid, creator, st, g)
  \/ \E uid \in UserIds, p \in ProjectIds, st \in ProjectStatus, creator \in UserIds :
       ApiUpdateProject(uid, p, st, creator)
  \/ \E uid \in UserIds, p \in ProjectIds : ApiDeleteProject(uid, p)
  \/ \E uid \in UserIds : ApiSelectProjects(uid)
  \/ \E uid \in UserIds, donor \in UserIds, p \in ProjectIds, a \in Amounts,
        st \in DonationStatus : ApiInsertDonationAs(uid, donor, p, a, st)
  \/ \E uid \in UserIds, d \in DonationIds, st \in DonationStatus, a \in Amounts :
       ApiUpdateDonation(uid, d, st, a)
  \/ \E uid \in UserIds, d \in DonationIds : ApiDeleteDonation(uid, d)

SpecRls == InitRls /\ [][NextRls]_vars

\* ---------------------------------------------------------------- navigation
\* AppContent: the page shown, the session and the lists the pages have loaded.
\* Here DonationModal.handleDonate is taken in its two halves, before and after the
\* await of the INSERT, and the statements run as the signed-in user.
Page == {"home", "signin", "signup", "projects", "project-detail", "create", "edit",
         "dashboard", "admin"}

\* the state of a page's component (Dashboard, AdminPanel) once currentPage is page:
\* kept while its page stays, discarded when the component unmounts
Mounted(list, of, page) == IF currentPage = of /\ page = of THEN list ELSE {}

\* AppContent.handleNavigate
handleNavigate(page) ==
  /\ currentPage' = page
  /\ selectedProjectId' = 0
  /\ editProjectId' = 0
  /\ dashProjects' = Mounted(dashProjects, "dashboard", page)
  /\ adminProjects' = Mounted(adminProjects, "admin", page)

\* variant: Create Project and Admin Panel offered to every signed-in user
HeaderOffers_AnyUser(page) ==
  CASE page \in {"home", "projects"} -> TRUE
    [] page \in {"create", "admin", "dashboard"} -> authUser # 0
    [] page \in {"signin", "signup"} -> authUser = 0
    [] OTHER -> FALSE

\* Header (desktop and mobile menu): the pages its buttons navigate to
HeaderOffers(page) ==
  CASE page \in {"home", "projects"} -> TRUE
    [] page = "create" -> authUser # 0 /\ profiles[authUser] = "project_creator"
    [] page = "admin" -> authUser # 0 /\ profiles[authUser] = "admin"
    [] page = "dashboard" -> authUser # 0
    [] page \in {"signin", "signup"} -> authUser = 0
    [] OTHER -> FALSE

\* a click on a button of the Header (the donation modal, when shown, covers it)
HeaderClick(page) ==
  /\ ~showDonationModal
  /\ HeaderOffers(page)
  /\ handleNavigate(page)
  /\ UNCHANGED <<profiles, projects, donations, tx, history, selected, now, affected,
                 showDonationModal, donationProject, error, authUser, onSuccess>>

\* the other callers of handleNavigate: Hero (onGetStarted, onExplore) on the home
\* page, the footer links, ProjectDetail.onBack, the link of SignUp to signin
PageClick(page) ==
  /\ ~showDonationModal
  /\ \/ page \in {"projects", "signup"}
     \/ currentPage = "project-detail" /\ selectedProjectId # 0 /\ page = "projects"
     \/ currentPage = "signup" /\ page = "signin"
  /\ handleNavigate(page)
  /\ UNCHANGED <<profiles, projects, donations, tx, history, selected, now, affected,
                 showDonationModal, donationProject, error, authUser, onSuccess>>

\* the popstate listener of AppContent
handlePopState ==
  /\ currentPage' = "home"
  /\ selectedProjectId' = 0
  /\ editProjectId' = 0
  /\ dashProjects' = {}
  /\ adminProjects' = {}
  /\ UNCHANGED <<profiles, projects, donations, tx, history, selected, now, affected,
                 showDonationModal, donationProject, error, authUser, onSuccess>>

\* AppContent.handleProjectClick, from a card of ProjectList (home: active and
\* fully_funded; projects: completed too), a row of Dashboard or of AdminPanel
handleProjectClick(p) ==
  /\ ~showDonationModal
  /\ ProjectExists(p)
  /\ \/ currentPage = "home" /\ projects[p].status \in {"active", "fully_funded"}
     \/ /\ currentPage = "projects"
        /\ projects[p].status \in {"active", "fully_funded", "completed"}
     \/ currentPage = "dashboard" /\ p \in dashProjects
     \/ currentPage = "admin" /\ p \in adminProjects
  /\ selectedProjectId' = p
  /\ currentPage' = "project-detail"
  /\ dashProjects' = {}
  /\ adminProjects' = {}
  /\ UNCHANGED <<profiles, projects, donations, tx, history, selected, now, affected,
                 showDonationModal, donationProject, error, authUser, onSuccess,
                 editProjectId>>

\* AppContent.handleEditProject, from the edit button of a row of Dashboard
handleEditProject(p) ==
  /\ ~showDonationModal
  /\ currentPage = "dashboard"
  /\ p \in dashProjects
  /\ editProjectId' = p
  /\ currentPage' = "edit"
  /\ dashProjects' = {}
  /\ UNCHANGED <<profiles, projects, donations, tx, history, selected, now, affected,
                 showDonationModal, donationProject, error, authUser, onSuccess,
                 selectedProjectId, adminProjects>>

\* variant: the query without .eq('creator_id', profile.id)
loadCreatorData_All ==
  /\ currentPage = "dashboard"
  /\ authUser # 0
  /\ profiles[authUser] \in {"project_creator", "admin"}
  /\ dashProjects' = {p \in DOMAIN projects :
                        ProjectExists(p) /\ ProjectsSelectUsing(authUser, projects[p])}
  /\ UNCHANGED <<profiles, projects, donations, tx, history, selected, now, affected,
                 showDonationModal, donationProject, error, authUser, onSuccess,
                 currentPage, selectedProjectId, editProjectId, adminProjects>>

\* Dashboard.loadCreatorData (the effect of Dashboard for a project_creator or an
\* admin): the projects with creator_id = profile.id that the SELECT policy shows
loadCreatorData ==
  /\ currentPage = "dashboard"
  /\ authUser # 0
  /\ profiles[authUser] \in {"project_creator", "admin"}
  /\ dashProjects' = {p \in DOMAIN projects :
                        /\ ProjectExists(p)
                        /\ ProjectsSelectUsing(authUser, projects[p])
                        /\ projects[p].creator_id = authUser}
  /\ UNCHANGED <<profiles, projects, donations, tx, history, selected, now, affected,
                 showDonationModal, donationProject, error, authUser, onSuccess,
                 currentPage, selectedProjectId, editProjectId, adminProjects>>

\* CreateProject.handleSubmit on the page create (INSERT) or edit (UPDATE .. WHERE
\* id = projectId), as the policies of projects admit the statement for the
\* signed-in user, then onSuccess: handleNavigate('dashboard').  An UPDATE the
\* policy admits on no row is no error.
handleSubmit(status, goal) ==
  LET inserted == [status |-> status, goal_amount |-> goal, raised_amount |-> 0,
                   creator_id |-> authUser, start_date |-> NoDate, end_date |-> NoDate]
      updated == [projects[editProjectId] EXCEPT !.status = status,
                                                 !.goal_amount = goal,
                                                 !.creator_id = authUser]
  IN /\ ~showDonationModal
     /\ authUser # 0
     /\ goal > 0
     /\ \/ /\ currentPage = "create"
           /\ FreeProjectIds # {}
           /\ ProjectsInsertCheck(authUser, inserted)
           /\ projects' = [projects EXCEPT ![NewProjectId] = inserted]
        \/ /\ currentPage = "edit"
           /\ editProjectId # 0
           /\ ProjectExists(editProjectId)
           /\ ~ProjectLocked(editProjectId)
           /\ ProjectsUpdateUsing(authUser, projects[editProjectId]) =>
                ProjectsUpdateCheck(authUser, updated)
           /\ projects' = IF ProjectsUpdateUsing(authUser, projects[editProjectId])
                          THEN [projects EXCEPT ![editProjectId] = updated]
                          ELSE projects
     /\ handleNavigate("dashboard")
     /\ UNCHANGED <<profiles, donations, tx, history, selected, now, affected,
                    showDonationModal, donationProject, error, authUser, onSuccess>>

\* AppContent.handleDonationSuccess, with the selectedProjectId of the render the
\* function was made in: the page it leaves
handleDonationSuccess(selectedId) ==
  IF selectedId # 0 THEN "project-detail" ELSE currentPage

\* DonationModal.handleDonate up to its await: the amount is validated and the
\* INSERT sent, which the database runs.  The running handler keeps the onSuccess
\* of the render it started in (one donation in flight at a time).
handleDonateSend(text) ==
  LET donationAmount == parseFloat(text)
  IN /\ showDonationModal
     /\ donationProject # 0
     /\ authUser # 0
     /\ onSuccess = -1
     /\ IF donationAmount.isNaN \/ donationAmount.value <= 0
        THEN /\ error' = InvalidAmount
             /\ UNCHANGED <<projects, donations, history, onSuccess>>
        ELSE /\ ProjectExists(donationProject)
             /\ donationAmount.value <= MaxAmount
             /\ InsertDonation(donationProject, donationAmount.value, "completed")
             /\ error' = ""
             /\ onSuccess' = selectedProjectId
     /\ UNCHANGED <<profiles, tx, selected, now, affected, showDonationModal,
                    donationProject, authUser, currentPage, selectedProjectId,
                    editProjectId, dashProjects, adminProjects>>

\* DonationModal.handleDonate after its await, the INSERT having succeeded:
\* onSuccess(); onClose()
handleDonateResume ==
  /\ onSuccess # -1
  /\ currentPage' = handleDonationSuccess(onSuccess)
  /\ dashProjects' = Mounted(dashProjects, "dashboard", currentPage')
  /\ adminProjects' = Mounted(adminProjects, "admin", currentPage')
  /\ showDonationModal' = FALSE
  /\ error' = ""
  /\ onSuccess' = -1
  /\ UNCHANGED <<profiles, projects, donations, tx, history, selected, now, affected,
                 donationProject, authUser, selectedProjectId, editProjectId>>

\* SignUp.handleSubmit: signUp(email, password, fullName, role) creates the profile
\* and logs the user in, then onNavigate('home')
handleSubmitSignUp(u, role) ==
  /\ ~showDonationModal
  /\ currentPage = "signup"
  /\ authUser = 0
  /\ profiles[u] = "none"
  /\ role \in {"donor", "project_creator"}
  /\ profiles' = [profiles EXCEPT ![u] = role]
  /\ authUser' = u
  /\ handleNavigate("home")
  /\ UNCHANGED <<projects, donations, tx, history, selected, now, affected,
                 showDonationModal, donationProject, error, onSuccess>>

\* SignIn: signIn(email, password) of a registered user, then the redirect
signIn(u, page) ==
  /\ ~showDonationModal
  /\ currentPage = "signin"
  /\ authUser = 0
  /\ profiles[u] # "none"
  /\ page \in {"home", "dashboard"}
  /\ authUser' = u
  /\ handleNavigate(page)
  /\ UNCHANGED <<profiles, projects, donations, tx, history, selected, now, affected,
                 showDonationModal, donationProject, error, onSuccess>>

\* Header.handleSignOut: await signOut(), then onNavigate('home')
handleSignOut ==
  /\ ~showDonationModal
  /\ authUser # 0
  /\ authUser' = 0
  /\ handleNavigate("home")
  /\ UNCHANGED <<profiles, projects, donations, tx, history, selected, now, affected,
                 showDonationModal, donationProject, error, onSuccess>>

\* no user has signed up but the last, whom the Supabase dashboard has made an admin
InitNav ==
  /\ profiles = [u \in UserIds |-> IF u = NumUsers THEN "admin" ELSE "none"]
  /\ projects = [p \in ProjectIds |-> NoProject]
  /\ donations = [d \in DonationIds |-> NoDonation]
  /\ tx = [d \in DonationIds |-> IdleTx]
  /\ adminProjects = {}
  /\ showDonationModal = FALSE
  /\ donationProject = 0
  /\ error = ""
  /\ onSuccess = -1
  /\ dashProjects = {}
  /\ authUser = 0
  /\ editProjectId = 0
  /\ selectedProjectId = 0
  /\ currentPage = "home"
  /\ affected = -1
  /\ now = 1
  /\ selected = [uid |-> 0, rows |-> {}]
  /\ history = [d \in DonationIds |-> "never"]

NextNav ==
  \/ \E page \in Page : HeaderClick(page)
  \/ \E page \in Page : PageClick(page)
  \/ handlePopState
  \/ \E p \in ProjectIds : handleProjectClick(p)
  \/ \E p \in ProjectIds : handleEditProject(p)
  \/ loadCreatorData
  \/ \E st \in {"draft", "pending_review"}, g \in Goals : handleSubmit(st, g)
  \/ \E u \in UserIds, role \in UserRole : handleSubmitSignUp(u, role)
  \/ \E u \in UserIds, page \in Page : signIn(u, page)
  \/ handleSignOut
  \/ currentPage = "admin" /\ authUser # 0 /\ ~showDonationModal /\ loadProjects
  \/ \E p \in ProjectIds :
       currentPage = "admin" /\ authUser # 0 /\ ~showDonationModal /\ handleApprove(p)
  \/ /\ currentPage = "project-detail"
     /\ selectedProjectId # 0
     /\ authUser # 0
     /\ ~showDonationModal
     /\ handleDonateOpen(selectedProjectId)
  \/ \E text \in AmountTexts : handleDonateSend(text)
  \/ handleDonateResume
  \/ closeDonationModal

SpecNav == InitNav /\ [][NextNav]_vars

\* ---------------------------------------------------------------- ledger claims
\* The claims are stated on the committed tables: a step of the system is read as
\* the change it makes to the rows the other sessions and the clients can see.

\* the committed row of donation d moves from pending or refunded to completed
CompletesByUpdate(d) ==
  /\ donations[d].status \in {"pending", "refunded"}
  /\ donations'[d].status = "completed"

\* the step commits an UPDATE of donation d
UpdateStep(d) ==
  \/ Commit(d)
  \/ DonationExists(d) /\ donations'[d] # NoDonation /\ donations'[d] # donations[d]

\* the committed project row of donation d, before and after the step
Before(d) == projects[donations[d].project_id]
After(d) == projects'[donations[d].project_id]

\* the sum of the amounts of the completed donations of project p
RECURSIVE SumCompleted(_, _)
SumCompleted(p, ds) ==
  IF ds = {} THEN 0
  ELSE LET d == CHOOSE x \in ds : TRUE
       IN (IF donations[d].project_id = p /\ donations[d].status = "completed"
           THEN donations[d].amount ELSE 0) + SumCompleted(p, ds \ {d})

C2_ExactlyOnce ==
  [][\A d \in DonationIds :
       (history[d] = "credited" /\ UpdateStep(d)) =>
         After(d).raised_amount = Before(d).raised_amount]_vars

\* C3 (as claimed): a completion on a project whose status is completed or
\* cancelled adds the amount and leaves the status as it is.
C3_TerminalKept ==
  [][\A d \in DonationIds :
       (CompletesByUpdate(d) /\ Before(d).status \in {"completed", "cancelled"}) =>
         /\ After(d).raised_amount = Before(d).raised_amount + donations'[d].amount
         /\ After(d).status = Before(d).status]_vars

\* C4 (as claimed): a completion step sets the status to fully_funded if and only if
\* the post-increment total reaches the goal and the status before the step was
\* neither completed nor cancelled; otherwise the status is unchanged.
C4_FullyFundedIff ==
  [][\A d \in DonationIds :
       CompletesByUpdate(d) =>
         After(d).status =
           IF /\ Before(d).raised_amount + donations'[d].amount >= Before(d).goal_amount
              /\ Before(d).status \notin {"completed", "cancelled"}
           THEN "fully_funded" ELSE Before(d).status]_vars

\* C5: the fully-funded check uses the cumulative post-increment total.  A completion
\* on an active project whose committed raised_amount (all the earlier completions
\* included, however the transactions interleaved) plus the amount reaches the goal
\* leaves raised_amount = that sum and status = fully_funded; one that does not
\* reach it leaves the project active.
C5_CumulativeThreshold ==
  [][\A d \in DonationIds :
       (CompletesByUpdate(d) /\ Before(d).status = "active") =>
         /\ After(d).raised_amount = Before(d).raised_amount + donations'[d].amount
         /\ After(d).status = IF After(d).raised_amount >= Before(d).goal_amount
                              THEN "fully_funded" ELSE "active"]_vars

\* C5 witness: two donations, each below the goal, the first credited and committed on
\* the active project, the second in flight and carrying the project beyond the goal.
C5_Witness ==
  \E d \in DonationIds, e \in DonationIds :
    /\ d # e
    /\ tx[d].wrote
    /\ donations[e].status = "completed"
    /\ projects[tx[d].new.project_id].status = "active"
    /\ projects[tx[d].new.project_id].raised_amount = donations[e].amount
    /\ donations[e].amount < projects[tx[d].new.project_id].goal_amount
    /\ tx[d].new.amount < projects[tx[d].new.project_id].goal_amount
    /\ tx[d].project.status = "fully_funded"
    /\ tx[d].project.raised_amount = donations[e].amount + tx[d].new.amount
    /\ tx[d].project.raised_amount > projects[tx[d].new.project_id].goal_amount

\* C6 (as claimed): in every reachable state each project's raised_amount is the sum
\* of the amounts of its completed donations.
C6_RaisedIsSumOfCompleted ==
  \A p \in ProjectIds :
    ProjectExists(p) => projects[p].raised_amount = SumCompleted(p, DonationIds)

\* C7: the insert of a donation that already has status completed (the donation flow)
\* leaves the project's raised_amount and status (the whole projects table) unchanged.
C7_InsertFiresNoUpdate ==
  [][\A d \in DonationIds :
       (~DonationExists(d) /\ donations'[d].status = "completed") =>
         projects' = projects]_vars

\* C7 witness: a donation stored as completed by the donation flow (the modal has
\* closed again) on an active project that has received no credit.
C7_Witness ==
  /\ ~showDonationModal
  /\ donationProject # 0
  /\ \E d \in DonationIds :
       /\ donations[d].status = "completed"
       /\ donations[d].project_id = donationProject
       /\ projects[donationProject].raised_amount = 0
       /\ projects[donationProject].status = "active"

\* C8: a donation update that does not move the status from a non-completed state to
\* completed (other fields, old status already completed, a move to pending or
\* refunded) leaves the projects table unchanged.
C8_OtherUpdatesKeepProjects ==
  [][\A d \in DonationIds :
       (UpdateStep(d)
          /\ ~(donations[d].status # "completed" /\ donations'[d].status = "completed"))
         => projects' = projects]_vars

\* C8 witness: an update of a completed donation (its amount changed, or refunded)
\* has been committed on a project the donation had been credited to.
C8_Witness ==
  \E d \in DonationIds :
    /\ history[d] = "credited"
    /\ tx[d].pc = "idle"
    /\ donations[d].status \in {"refunded", "completed"}
    /\ projects[donations[d].project_id].raised_amount > 0
    /\ projects[donations[d].project_id].raised_amount # donations[d].amount

\* C9 (as claimed): for a donation never completed before, an update to completed
\* credits exactly the amount, whatever the prior status: pending, refunded or NULL.
C9_AnyPriorStatus ==
  [][\A d \in DonationIds :
       (history[d] = "never"
          /\ donations[d].status \in {"pending", "refunded", NULL}
          /\ donations'[d].status = "completed") =>
         After(d).raised_amount = Before(d).raised_amount + donations'[d].amount]_vars

\* C10: overfunding.  A completion on a fully_funded project adds the amount and
\* leaves the status fully_funded.
C10_Overfunding ==
  [][\A d \in DonationIds :
       (CompletesByUpdate(d) /\ Before(d).status = "fully_funded") =>
         /\ After(d).raised_amount = Before(d).raised_amount + donations'[d].amount
         /\ After(d).status = "fully_funded"]_vars

\* C10 witness: a fully_funded project whose raised_amount exceeds its goal_amount
\* after the completion of its donations.
C10_Witness ==
  \E p \in ProjectIds :
    /\ projects[p].status = "fully_funded"
    /\ projects[p].raised_amount > projects[p].goal_amount
    /\ \A d \in DonationIds : donations[d].status = "completed" /\ donations[d].project_id = p
    /\ SumCompleted(p, DonationIds) = projects[p].raised_amount

\* C11: the increment of raised_amount and the re-evaluation of status are one
\* indivisible step.  In every step that changes the raised_amount the sessions and
\* the clients can read, the status they can read is already the one re-evaluated
\* against the new total; and the status never becomes fully_funded in a step that
\* does not also publish the total that reached the goal.
C11_AtomicCredit ==
  [][\A p \in ProjectIds :
       (ProjectExists(p) /\ projects'[p] # DeletedProject) =>
         /\ (projects'[p].raised_amount # projects[p].raised_amount) =>
               projects'[p].status =
                 IF projects'[p].raised_amount >= projects[p].goal_amount
                 THEN "fully_funded" ELSE projects[p].status
         /\ (projects[p].status # "fully_funded" /\ projects'[p].status = "fully_funded") =>
               /\ projects'[p].raised_amount > projects[p].raised_amount
               /\ projects'[p].raised_amount >= projects[p].goal_amount]_vars

\* C11 witness: a concurrent completion reads a project that a committed completion
\* has carried to its goal: total and status of the committed row agree, and the
\* completion in flight builds on that total.
C11_Witness ==
  \E d \in DonationIds, e \in DonationIds :
    /\ d # e
    /\ history[d] = "credited"
    /\ tx[d].pc = "idle"
    /\ donations[d].status = "completed"
    /\ tx[e].wrote
    /\ tx[e].new.project_id = donations[d].project_id
    /\ projects[donations[d].project_id].status = "fully_funded"
    /\ projects[donations[d].project_id].raised_amount
         >= projects[donations[d].project_id].goal_amount
    /\ tx[e].project.raised_amount
         = projects[donations[d].project_id].raised_amount + tx[e].new.amount

C13_NonPositiveRejected ==
  /\ [](\A d \in DonationIds :
          /\ DonationExists(d) => donations[d].amount > 0
          /\ tx[d].pc # "idle" => tx[d].new.amount > 0)
  /\ [][(error' = InvalidAmount /\ error # InvalidAmount) =>
          (projects' = projects /\ donations' = donations /\ tx' = tx)]_vars

\* C13 witness: the donation form open on an active project shows the rejection, no
\* donation is stored and the project has raised nothing.
C13_Witness ==
  /\ showDonationModal
  /\ error = InvalidAmount
  /\ donationProject # 0
  /\ \A d \in DonationIds : ~DonationExists(d)
  /\ projects[donationProject].status = "active"
  /\ projects[donationProject].raised_amount = 0

\* C14: a donation write whose project_id has no projects row fails and applies
\* nothing.  Every donations row, committed or written by an open transaction,
\* references an existing project; and the step in which the donation form reports
\* the failed reference changes neither table.
C14_MissingProjectRejected ==
  /\ [](\A d \in DonationIds :
          /\ DonationExists(d) => ProjectExists(donations[d].project_id)
          /\ tx[d].pc # "idle" => ProjectExists(tx[d].new.project_id))
  /\ [][(error' = ForeignKeyViolation /\ error # ForeignKeyViolation) =>
          (projects' = projects /\ donations' = donations /\ tx' = tx)]_vars

\* C14 witness: the donation form, opened on a project that has been deleted since,
\* shows the failed reference; no donation is stored.
C14_Witness ==
  /\ showDonationModal
  /\ error = ForeignKeyViolation
  /\ donationProject # 0
  /\ projects[donationProject] = DeletedProject
  /\ \A d \in DonationIds : ~DonationExists(d)

\* C15: frame of a donation completion.  The step that completes donation d changes
\* the raised_amount and the status of the project d refers to and nothing else:
\* every other project row is unchanged, goal_amount and creator_id of the project
\* are unchanged, the donation row is the one the triggering statement wrote (same
\* project_id) and the other donations are unchanged.
C15_Frame ==
  [][\A d \in DonationIds :
       CompletesByUpdate(d) =>
         /\ \A q \in DOMAIN projects :
              q # donations[d].project_id => projects'[q] = projects[q]
         /\ After(d).goal_amount = Before(d).goal_amount
         /\ After(d).creator_id = Before(d).creator_id
         /\ donations'[d] = tx[d].new
         /\ donations'[d].project_id = donations[d].project_id
         /\ \A e \in DonationIds : e # d => donations'[e] = donations[e]]_vars

\* C15 witness: two projects with a donation each; the donation of the one has been
\* completed and credited, the other project and its pending donation are as they
\* were.
C15_Witness ==
  \E d \in DonationIds, e \in DonationIds :
    /\ d # e
    /\ donations[d].project_id # donations[e].project_id
    /\ history[d] = "credited"
    /\ donations[d].status = "completed"
    /\ tx[d].pc = "idle"
    /\ projects[donations[d].project_id].raised_amount = donations[d].amount
    /\ donations[e].status = "pending"
    /\ history[e] = "never"
    /\ ProjectExists(donations[e].project_id)
    /\ projects[donations[e].project_id].raised_amount = 0

\* C16: a project's raised_amount never decreases and is never negative, over any
\* sequence of the operations: saves of the project form, approve and reject,
\* donation inserts and donation status changes, completed -> refunded included.
C16_RaisedMonotone ==
  /\ [](\A p \in ProjectIds : projects[p].raised_amount >= 0)
  /\ [][\A p \in ProjectIds :
          (ProjectExists(p) /\ projects'[p] # DeletedProject) =>
            projects'[p].raised_amount >= projects[p].raised_amount]_vars

\* C16 witness: a donation that was credited has been refunded, and the project has
\* been saved again by its creator since the credit (its total has reached the goal,
\* yet its status is one that only the form writes): the total is still there.
C16_Witness ==
  \E d \in DonationIds :
    /\ history[d] = "credited"
    /\ donations[d].status = "refunded"
    /\ tx[d].pc = "idle"
    /\ projects[donations[d].project_id].status \in {"draft", "pending_review"}
    /\ projects[donations[d].project_id].raised_amount >= donations[d].amount
    /\ projects[donations[d].project_id].raised_amount
         >= projects[donations[d].project_id].goal_amount

\* C17: in every reachable state a project whose status is fully_funded has
\* raised_amount >= goal_amount (the form, which can raise the goal, writes the
\* status draft or pending_review with it).
C17_FullyFundedReachedGoal ==
  \A p \in ProjectIds :
    projects[p].status = "fully_funded" =>
      projects[p].raised_amount >= projects[p].goal_amount

\* C17 witness: a fully_funded project whose total is exactly its goal, the largest
\* one, made of the credits of all its donations.
C17_Witness ==
  \E p \in ProjectIds :
    /\ projects[p].status = "fully_funded"
    /\ projects[p].goal_amount = MaxGoal
    /\ projects[p].raised_amount = MaxGoal
    /\ \A d \in DonationIds : history[d] = "credited" /\ donations[d].project_id = p

\* C18 (as claimed): completed and cancelled are terminal for the creator's and the
\* admin's operations: no step that leaves the raised_amount as it is (a save of the
\* project form, approve, reject) changes the status of a project that is completed
\* or cancelled.
C18_TerminalForCreatorAndAdmin ==
  [][\A p \in ProjectIds :
       (/\ projects[p].status \in {"completed", "cancelled"}
        /\ projects'[p] # DeletedProject
        /\ projects'[p].raised_amount = projects[p].raised_amount) =>
         projects'[p].status = projects[p].status]_vars

\* C19 (as claimed): the approval workflow is admin-only at the database level.  As
\* long as no user has the role admin, no statement the policies admit moves an
\* existing project to active.
C19_ApprovalAdminOnly ==
  [][(\A u \in UserIds : ~IsAdmin(u)) =>
       \A p \in ProjectIds :
         (ProjectExists(p) /\ projects'[p].status = "active") =>
           projects[p].status = "active"]_vars

\* C20 (as claimed): roles are enforced at the database level.  No statement the
\* policies admit turns the role of a donor or of a project_creator into admin.
C20_NoRoleEscalation ==
  [][\A u \in UserIds :
       profiles[u] \in {"donor", "project_creator"} => profiles'[u] # "admin"]_vars

\* C21: project read access.  A SELECT by a signed-in user who is not an admin
\* returns, of the projects of other creators, exactly those whose status is active,
\* fully_funded or completed: never one in draft, pending_review or cancelled.
C21_ReadAccess ==
  [][(selected' # selected /\ ~IsAdmin(selected'.uid)) =>
       \A p \in ProjectIds :
         (ProjectExists(p) /\ projects[p].creator_id # selected'.uid) =>
           (p \in selected'.rows <=>
              projects[p].status \in {"active", "fully_funded", "completed"})]_vars

\* C21 witness: a donor has read the table while the project of another user is
\* cancelled, and the project is not among the rows returned.
C21_Witness ==
  \E p \in ProjectIds :
    /\ selected.uid \in UserIds
    /\ profiles[selected.uid] = "donor"
    /\ projects[p].status = "cancelled"
    /\ projects[p].creator_id # selected.uid
    /\ selected.rows = {}

\* C22 (as claimed): admin approval always takes effect.  For every project the
\* admin panel lists in pending_review, whatever its end_date, the approval leaves
\* the project active with start_date the time of the approval.
C22_ApprovalTakesEffect ==
  \A p \in adminProjects :
    projects[p].status = "pending_review" =>
      /\ ApproveResult(p).status = "active"
      /\ ApproveResult(p).start_date = now

\* C23 (as claimed): approve and reject act on projects in pending_review only.  A
\* click on a row the admin panel loaded as pending_review does not change the
\* status of a project that has left pending_review since.
C23_StaleDecisionIgnored ==
  [][\A p \in ProjectIds :
       (/\ ProjectExists(p)
        /\ projects[p].status # "pending_review"
        /\ (handleApprove(p) \/ handleReject(p))) =>
         projects'[p].status = projects[p].status]_vars

\* C24 (as claimed): a project has a publicly readable status (active, fully_funded,
\* completed) only after an admin has approved it (the approval is what sets
\* start_date).
C24_PublicOnlyAfterApproval ==
  \A p \in ProjectIds :
    projects[p].status \in {"active", "fully_funded", "completed"} =>
      projects[p].start_date # NoDate

\* C25 (as claimed): donations are immutable for clients.  No statement a signed-in
\* client sends changes a stored donation or deletes it, and none fires the ledger
\* trigger.
C25_DonationsImmutable ==
  [][\A d \in DonationIds :
       DonationExists(d) => donations'[d] = donations[d] /\ tx'[d] = IdleTx]_vars

\* C25 (amended): no statement a signed-in client sends changes a stored donation's
\* status, amount or project_id or fires the ledger trigger, and a stored donation
\* is deleted only with its project, by an admin's DELETE of that project.
C25_ImmutableButCascade ==
  [][\A d \in DonationIds :
       DonationExists(d) =>
         /\ tx'[d] = IdleTx
         /\ \/ donations'[d] = donations[d]
            \/ /\ donations'[d] = NoDonation
               /\ projects'[donations[d].project_id] = DeletedProject
               /\ \E uid \in UserIds :
                    IsAdmin(uid) /\ ApiDeleteProject(uid, donations[d].project_id)]_vars

\* a client has sent an UPDATE or a DELETE on a stored donation, which is still as
\* it was inserted
C25_Witness ==
  /\ affected = 0
  /\ \E d \in DonationIds : DonationExists(d) /\ donations[d].status = "pending"

\* C26 (as claimed): every donation row created through the donation flow targets
\* a project whose status is active at the moment of the insert.
C26_DonatedProjectActive ==
  [][\A d \in DonationIds :
       (/\ donations[d] = NoDonation
        /\ donations'[d] # NoDonation
        /\ \E text \in AmountTexts : handleDonate(text)) =>
         projects[donations'[d].project_id].status = "active"]_vars

\* C27: editing a project through the application never changes its owner.  Every
\* step of the application leaves the creator_id of every stored project as it is,
\* and a project the create form stores has the signed-in user as its creator_id.
C27_OwnerKept ==
  [][\A p \in ProjectIds :
       /\ ProjectExists(p) => projects'[p].creator_id = projects[p].creator_id
       /\ ~ProjectExists(p) /\ projects'[p] # projects[p] =>
            authUser # 0 /\ projects'[p].creator_id = authUser]_vars

\* C27 witness: the creator is back on the dashboard after re-saving, through the
\* edit form, the project an admin had approved
C27_Witness ==
  /\ currentPage = "dashboard"
  /\ \E p \in ProjectIds :
       /\ projects[p].status \in {"draft", "pending_review"}
       /\ projects[p].start_date # NoDate
       /\ projects[p].creator_id = authUser

\* C28 (as claimed): the navigation state invariant of the App.  The page
\* project-detail has a selected project, the page edit has a project to edit, and
\* the donation modal is shown only with a donation project.
C28_NavigationInvariant ==
  /\ currentPage = "project-detail" => selectedProjectId # 0
  /\ currentPage = "edit" => editProjectId # 0
  /\ showDonationModal => donationProject # 0

\* C29: role-gated pages.  A step that enters the page admin is made by a signed-in
\* admin, a step that enters the page create by a signed-in project_creator, and a
\* step that signs the user out leaves the page home.
C29_RoleGatedPages ==
  [][/\ currentPage # "admin" /\ currentPage' = "admin" =>
          authUser # 0 /\ authUser' = authUser /\ profiles[authUser] = "admin"
     /\ currentPage # "create" /\ currentPage' = "create" =>
          /\ authUser # 0
          /\ authUser' = authUser
          /\ profiles[authUser] = "project_creator"
     /\ authUser # 0 /\ authUser' = 0 => currentPage' = "home"]_vars

\* C29 witness: a project_creator has signed up and been on the page create, and
\* the admin, signed in after the creator signed out, is on the page admin
C29_Witness ==
  /\ currentPage = "admin"
  /\ authUser # 0
  /\ profiles[authUser] = "admin"
  /\ \E p \in ProjectIds : ProjectExists(p) /\ projects[p].creator_id # authUser

====
